---- MODULE Spec2Model ----
(***************************************************************************)
(* Bulk image generation of quote-imagen: the POST /api/image-gen handler  *)
(* (packages/backend/src/routes/imageGen.ts), the Job collection it        *)
(* writes, renderImage (packages/backend/src/services/renderer.ts) as far  *)
(* as its result and its output file are concerned, and the job status     *)
(* query GET /api/image-gen/:jobId.                                        *)
(*                                                                         *)
(* One generation request is followed from its arrival to its response.    *)
(* Every await of the handler is a step of its own, so that status queries *)
(* interleave with the run exactly where the event loop allows it.         *)
(***************************************************************************)
EXTENDS Integers, Sequences, FiniteSets, TLC

\* ---------------------------------------------------------------- bounds
MaxRows == 3

\* ------------------------------------------------------- values and inputs
Undefined == "undefined"
Vars == {"headline", "author"}
Row == [Vars -> {Undefined, "x"}]
JobIdOfRequest == "job_1"
OutputDir == "/app/output"
Now == "date"

\* sequences of rows of length 0..MaxRows
RowSeqs == UNION {[1..n -> Row] : n \in 0..MaxRows}

\* the request bodies a client can send: templateId may be absent, data may
\* be absent or not an array, format may be absent
Requests ==
    [templateId : {Undefined, "tpl_both", "tpl_headline", "tpl_gone"},
     format : {Undefined, "jpeg"},
     data : [isArray : {TRUE}, items : RowSeqs]
            \cup {[isArray |-> FALSE, items |-> <<>>]}]

\* the Template collection at the time of the request
StoredTemplates ==
    {[templateId |-> "tpl_both", variables |-> <<"headline", "author">>],
     [templateId |-> "tpl_headline", variables |-> <<"headline">>]}

\* the points at which one renderImage call can fail, "none" for a call
\* that returns
RenderFaults == {"none", "newPage", "evaluate", "screenshot", "readFile", "pageClose"}
SaveOutcomes == {"saved", "writeError"}

NoJob ==
    [jobId |-> "", templateId |-> "", status |-> "", format |-> "",
     totalItems |-> 0, processedItems |-> 0, outputPaths |-> <<>>,
     errorMessages |-> <<>>, completedAt |-> Undefined]
NoTemplate == [templateId |-> "", variables |-> <<>>]
NoRequest == [templateId |-> Undefined, format |-> Undefined,
              data |-> [isArray |-> FALSE, items |-> <<>>]]
NoResponse == [code |-> 0]

VARIABLES
    pc,           \* where the POST handler is suspended
    req,          \* req.body of the generation request
    template,     \* the template the handler loaded
    job,          \* the handler's in-memory Job document
    images,       \* the images array of the response under construction
    i,            \* loop index of the render loop (0-based)
    jobsDb,       \* the persisted Job collection
    files,        \* the files present in the output directory
    renderLog,    \* the row indices renderImage was called for, in call order
    response,     \* the response of the generation request
    statusReply   \* the response of the latest job status query

genVars == <<pc, req, template, job, images, i, jobsDb, files, renderLog,
             response, statusReply>>

\* the template routes (packages/backend/src/routes/templates.ts)
VARIABLES
    templatesDb,  \* the persisted Template collection
    tplResponse   \* status code of the latest template request

tplVars == <<templatesDb, tplResponse>>

\* the renders of one template: what page.evaluate does to the document
VARIABLES
    loadedDoc,    \* template.fabricJson as held by the generation handler
    canvas,       \* per render, the objects of the fabric canvas of its page
    rPc,          \* per render, where renderImage stands
    rData         \* per render, the data row passed as variables

subVars == <<loadedDoc, canvas, rPc, rData>>

\* the browser singleton of the rendering service and the calls that share it
VARIABLES
    browser,      \* the module variable browser: 0 for null, else a process
    procs,        \* per browser process: "none", "live", "closed", "crashed"
    cPc,          \* per renderImage call, where it stands
    cBrowser,     \* per call, its browserInstance
    cPage,        \* per call, its page: "null", "open" or "closed"
    cFonts,       \* per call, whether a font load of its page is pending
    cResult,      \* per call, how its latest run ended
    closePc,      \* where closeBrowser stands
    closeTarget   \* the browser whose close() closeBrowser awaits

brVars == <<browser, procs, cPc, cBrowser, cPage, cFonts, cResult, closePc,
            closeTarget>>

\* placing an image in a circle frame (pages/TemplateListPage.tsx)
VARIABLES
    cvRadius,     \* frameRadius passed to createFramedImageGroup
    cvWidth,      \* img.width, the natural width of the image
    cvHeight,     \* img.height
    cvScale       \* the coverScale it computed, NoNumber before the call

cvVars == <<cvRadius, cvWidth, cvHeight, cvScale>>

\* one circle frame on the editor canvas and the operations on it
VARIABLES
    frame,        \* the frame object: geometry, clipPath, data
    frameEdit,    \* frameEditMode / frameEditState of the canvas store
    panel,        \* frameImageOffsetX / Y of the properties panel
    frLast,       \* the latest operation on the frame and its argument
    frPlaced,     \* the empty frame an image was placed in, while the
                  \* framed group has not been touched since
    frBefore,     \* the frame as it was when frame edit mode was entered,
                  \* while the image has not been moved or scaled since
    frOps         \* number of operations so far

frVars == <<frame, frameEdit, panel, frLast, frPlaced, frBefore, frOps>>

\* one textbox of the editor canvas and its variable binding
VARIABLES
    tbText,       \* textbox.text, a sequence of characters
    tbData        \* textbox.data: variableName and isDynamic

bdVars == <<tbText, tbData>>

\* the undo history of the canvas store
VARIABLES
    historyStack, \* the saved canvas states, oldest first
    historyIndex, \* position in historyStack, -1 without history
    isRestoring,  \* the flag undo and redo set around loadFromJSON
    restores,     \* per slot, the newIndex of a loadFromJSON in flight
    timers        \* setTimeout callbacks of object:added not yet run

hsVars == <<historyStack, historyIndex, isRestoring, restores, timers>>

\* saving the template from the editor
VARIABLES
    content,      \* the content of the canvas, as the number of its revision
    saved,        \* the content the server stored at the last successful save
    isDirty,      \* isDirty of the editor store
    inFlight      \* per save path, the content of a save request in flight

dtVars == <<content, saved, isDirty, inFlight>>

\* the editor (packages/frontend): everything the backend leaves alone
edVars == <<cvVars, frVars, bdVars, hsVars, dtVars>>

vars == <<genVars, tplVars, subVars, brVars, edVars>>

\* the variables a generation request leaves alone
notGenVars == <<tplVars, subVars, brVars, edVars>>
notTplVars == <<genVars, subVars, brVars, edVars>>

\* two renders of the same template, repeated and interleaved
Renders == {1, 2}
\* two renderImage calls that can be in progress together (two requests)
Calls == {1, 2}
\* puppeteer.launch() is followed for at most MaxLaunches browser processes
MaxLaunches == 3
BrowserIds == 1..MaxLaunches

\* ----------------------------------------------------------- pure helpers
\* Template.findOne({ templateId })
FindTemplate(templateId) == {t \in StoredTemplates : t.templateId = templateId}

\* Job.findOne({ jobId })
FindJob(db, jobId) == {j \in db : j.jobId = jobId}

\* job.save(): the document replaces the stored one with the same jobId
SaveJob_lost(db, doc) == db

SaveJob(db, doc) == {j \in db : j.jobId # doc.jobId} \cup {doc}

\* template.variables.filter((v) => !data.every((d) => d[v] !== undefined))
MissingVars_some(variables, data) ==
    LET Missing(v) == ~(\E k \in 1..Len(data) : data[k][v] # Undefined)
    IN  SelectSeq(variables, Missing)

MissingVars(variables, data) ==
    LET Missing(v) == ~(\A k \in 1..Len(data) : data[k][v] # Undefined)
    IN  SelectSeq(variables, Missing)

\* const { templateId, format = 'png', data } = req.body
FormatOf(body) == IF body.format = Undefined THEN "png" ELSE body.format

\* `${jobId}_${i}.${format}` and path.join(outputDir, outputFilename)
OutputFilename(jobId, idx, format) == <<jobId, idx, format>>
OutputPath(jobId, idx, format) == <<OutputDir, OutputFilename(jobId, idx, format)>>
OutputUrl(jobId, idx, format) == <<"/output", OutputFilename(jobId, idx, format)>>

\* `Image ${i}: ${message}`
ErrorMessage(idx, message) == [index |-> idx, message |-> message]

\* renderImage: the screenshot writes the output file; reading it back and
\* closing the page (finally) come after it and can still throw
renderImage(outputPath, fault, fs) ==
    [threw |-> fault # "none",
     message |-> fault,
     base64 |-> <<"base64", outputPath>>,
     files |-> IF fault \in {"none", "readFile", "pageClose"}
               THEN fs \cup {outputPath} ELSE fs]

\* job.errorMessages.length > 0 && images.length === 0 ? 'failed' : 'completed'
FinalStatus_anyError(errorMessages, imgs) ==
    IF Len(errorMessages) > 0 THEN "failed" ELSE "completed"

FinalStatus(errorMessages, imgs) ==
    IF Len(errorMessages) > 0 /\ Len(imgs) = 0 THEN "failed" ELSE "completed"

\* new Job({ jobId, templateId, status: 'processing', format, totalItems, ... })
NewJob(jobId, body) ==
    [jobId |-> jobId,
     templateId |-> body.templateId,
     status |-> "processing",
     format |-> FormatOf(body),
     totalItems |-> Len(body.data.items),
     processedItems |-> 0,
     outputPaths |-> <<>>,
     errorMessages |-> <<>>,
     completedAt |-> Undefined]

\* job.processedItems = i + 1; job.outputPaths.push(outputPath)
ProgressedJob_replace(doc, idx, outputPath) ==
    [doc EXCEPT !.processedItems = idx + 1, !.outputPaths = <<outputPath>>]

ProgressedJob(doc, idx, outputPath) ==
    [doc EXCEPT !.processedItems = idx + 1, !.outputPaths = Append(@, outputPath)]

\* job.errorMessages.push(`Image ${i}: ${(renderError as Error).message}`)
FailedRowJob(doc, idx, message) ==
    [doc EXCEPT !.errorMessages = Append(@, ErrorMessage(idx, message))]

\* job.status = ...; job.completedAt = new Date()
FinalizedJob_noDate(doc, imgs) ==
    [doc EXCEPT !.status = FinalStatus(doc.errorMessages, imgs)]

FinalizedJob(doc, imgs) ==
    [doc EXCEPT !.status = FinalStatus(doc.errorMessages, imgs),
                !.completedAt = Now]

\* the catch of the loop body ends the iteration; the for statement's i++
\* moves on to the next row
AfterCatch_abort(idx, n) == n

AfterCatch(idx, n) == idx + 1

\* ------------------------------------------------- numbers of the editor
\* The frame geometry of the editor (pages/TemplateListPage.tsx) is computed
\* with JavaScript Numbers: binary floating point, every + - * / rounded to
\* the nearest representable value, ties to the even mantissa.  A Number is
\* modelled as a fraction <<n, d>> in lowest terms with d > 0, and the
\* arithmetic rounds to MantissaBits significant bits (53 in the engine).
MantissaBits == 5

RECURSIVE Gcd(_, _)
Gcd(a, b) == IF b = 0 THEN a ELSE Gcd(b, a % b)

Abs(n) == IF n < 0 THEN -n ELSE n

Pow2(k) == 2 ^ k

\* the fraction n/d in lowest terms, d # 0
Rat(n, d) ==
    LET g == Gcd(Abs(n), Abs(d))
        s == IF d < 0 THEN -1 ELSE 1
    IN  <<(s * n) \div g, (s * d) \div g>>

Int2R(n) == <<n, 1>>
Zero == Int2R(0)
One == Int2R(1)

\* exact arithmetic and order of fractions
RAdd(x, y) == Rat(x[1] * y[2] + y[1] * x[2], x[2] * y[2])
RNeg(x) == <<-x[1], x[2]>>
RSub(x, y) == RAdd(x, RNeg(y))
RMul(x, y) == Rat(x[1] * y[1], x[2] * y[2])
RDiv(x, y) == Rat(x[1] * y[2], x[2] * y[1])
RLe(x, y) == x[1] * y[2] <= y[1] * x[2]
RLt(x, y) == x[1] * y[2] < y[1] * x[2]
RAbs(x) == <<Abs(x[1]), x[2]>>

\* a positive fraction scaled by a power of two into [2^(p-1), 2^p), with the
\* exponent that was taken out
RECURSIVE Normalised(_, _)
Normalised(x, e) ==
    IF RLe(Int2R(Pow2(MantissaBits)), x)
    THEN Normalised(RDiv(x, Int2R(2)), e + 1)
    ELSE IF RLt(x, Int2R(Pow2(MantissaBits - 1)))
         THEN Normalised(RMul(x, Int2R(2)), e - 1)
         ELSE <<x, e>>

\* m * 2^e as a fraction
Scaled(m, e) == IF e >= 0 THEN Rat(m * Pow2(e), 1) ELSE Rat(m, Pow2(-e))

\* round to nearest, ties to even: the result of every arithmetic operation
Fl(x) ==
    IF x[1] = 0 THEN Zero
    ELSE LET ne == Normalised(RAbs(x), 0)
             q == ne[1]
             m == q[1] \div q[2]
             twice == 2 * (q[1] - m * q[2])     \* 2 * remainder numerator
             up == twice > q[2] \/ (twice = q[2] /\ m % 2 = 1)
             r == Scaled(IF up THEN m + 1 ELSE m, ne[2])
         IN  IF x[1] < 0 THEN RNeg(r) ELSE r

\* the operators + - * / and Math.max, Math.min of the source
Plus(x, y) == Fl(RAdd(x, y))
Minus(x, y) == Fl(RSub(x, y))
Times(x, y) == Fl(RMul(x, y))
Over(x, y) == Fl(RDiv(x, y))
MathMax(x, y) == IF RLe(x, y) THEN y ELSE x
MathMin(x, y) == IF RLe(x, y) THEN x ELSE y

\* x || fallback for a Number x: 0 is falsy
OrElse(x, fallback) == IF x = Zero THEN fallback ELSE x

\* no Number computed yet
NoNumber == <<0, 0>>

\* no image is being placed
CoverIdle ==
    /\ cvRadius = NoNumber
    /\ cvWidth = NoNumber
    /\ cvHeight = NoNumber
    /\ cvScale = NoNumber

\* export interface CircleFrameData
FrameData(imageScale, offsetX, offsetY, originalWidth, originalHeight, frameRadius) ==
    [imageScale |-> imageScale,
     imageOffsetX |-> offsetX,
     imageOffsetY |-> offsetY,
     originalWidth |-> originalWidth,
     originalHeight |-> originalHeight,
     frameRadius |-> frameRadius]

\* a clip circle is its position <<left, top>> relative to the host's centre
NoClip == <<NoNumber, NoNumber>>
NoImage == [width |-> NoNumber, height |-> NoNumber]

\* no frame on the canvas
NoFrame ==
    [hasImage |-> FALSE, left |-> NoNumber, top |-> NoNumber,
     width |-> NoNumber, height |-> NoNumber,
     scaleX |-> NoNumber, scaleY |-> NoNumber,
     clipPath |-> NoClip, image |-> NoImage,
     data |-> FrameData(NoNumber, NoNumber, NoNumber, NoNumber, NoNumber, NoNumber)]

\* frameEditMode: null, frameEditState: null
NoFrameEdit ==
    [active |-> FALSE, originalFrameCenter |-> <<NoNumber, NoNumber>>,
     savedClipPath |-> NoClip]

NoOp == [op |-> "none", arg |-> NoNumber]

\* no frame is being edited
FrameIdle ==
    /\ frame = NoFrame
    /\ frameEdit = NoFrameEdit
    /\ panel = <<NoNumber, NoNumber>>
    /\ frLast = NoOp
    /\ frPlaced = NoFrame
    /\ frBefore = NoFrame
    /\ frOps = 0

\* data.variableName of an object that was never bound
Unset == <<"undefined">>

\* new Textbox('Enter text', ...): no binding
NewTextbox ==
    /\ tbText = <<"a">>
    /\ tbData = [variableName |-> Unset, isDynamic |-> FALSE]

\* loadFromJSON calls that can be in flight together, and pending timers
MaxPending == 1
MaxTimers == 1
Slots == 1..MaxPending
NoRestore == -2

\* historyStack: [], historyIndex: -1, isRestoring: false
EmptyHistory ==
    /\ historyStack = <<>>
    /\ historyIndex = -1
    /\ isRestoring = FALSE
    /\ restores = [k \in Slots |-> NoRestore]

\* the canvas store before the editor is mounted
HistoryIdle ==
    /\ EmptyHistory
    /\ timers = 0

\* the two ways to save: the toolbar's Save button (Toolbar.handleSave) and
\* Ctrl+S (triggerSave, EditorPage.handleSaveRequest)
Savers == {"toolbar", "shortcut"}
NoSave == -1

\* the template as loaded, isDirty: false, no save request in flight
Clean ==
    /\ content = 0
    /\ saved = 0
    /\ isDirty = FALSE
    /\ inFlight = [p \in Savers |-> NoSave]

\* the editor is not in use
EditorIdle ==
    /\ CoverIdle
    /\ FrameIdle
    /\ NewTextbox
    /\ HistoryIdle
    /\ Clean

\* ------------------------------------------------------------------- Init
GenInit ==
    /\ pc = "idle"
    /\ req = NoRequest
    /\ template = NoTemplate
    /\ job = NoJob
    /\ images = <<>>
    /\ i = 0
    /\ jobsDb = {}
    /\ files = {}
    /\ renderLog = <<>>
    /\ response = NoResponse
    /\ statusReply = NoResponse

\* no render of the document model in progress
SubIdle ==
    /\ loadedDoc = [defined |-> FALSE, hasObjects |-> FALSE, objects |-> <<>>]
    /\ canvas = [r \in Renders |-> <<>>]
    /\ rPc = [r \in Renders |-> "idle"]
    /\ rData = [r \in Renders |-> [v \in Vars |-> Undefined]]

\* let browser: Browser | null = null, no call of renderImage in progress
BrowserInit ==
    /\ browser = 0
    /\ procs = [b \in BrowserIds |-> "none"]
    /\ cPc = [c \in Calls |-> "idle"]
    /\ cBrowser = [c \in Calls |-> 0]
    /\ cPage = [c \in Calls |-> "null"]
    /\ cFonts = [c \in Calls |-> FALSE]
    /\ cResult = [c \in Calls |-> "none"]
    /\ closePc = "idle"
    /\ closeTarget = 0

Init ==
    /\ GenInit
    /\ templatesDb = {}
    /\ tplResponse = 0
    /\ SubIdle
    /\ BrowserInit
    /\ EditorIdle

\* ---------------------------------------------------------------- actions
Reject(code, error) ==
    /\ pc' = "done"
    /\ response' = [code |-> code, error |-> error]
    /\ UNCHANGED <<template, job, images, i, jobsDb, files, renderLog>>

\* router.post('/'): validation up to the construction of the Job document
PostImageGen ==
    /\ UNCHANGED notGenVars
    /\ pc = "idle"
    /\ \E body \in Requests :
        /\ req' = body
        /\ statusReply' = statusReply
        /\ IF body.templateId = Undefined
           THEN Reject(400, "templateId is required")
           ELSE IF ~body.data.isArray \/ Len(body.data.items) = 0
           THEN Reject(400, "data array is required and must not be empty")
           ELSE IF FindTemplate(body.templateId) = {}
           THEN Reject(404, "Template not found")
           ELSE LET tpl == CHOOSE t \in FindTemplate(body.templateId) : TRUE
                IN  IF Len(MissingVars(tpl.variables, body.data.items)) > 0
                    THEN Reject(400, "Missing required variables")
                    ELSE /\ template' = tpl
                         /\ job' = NewJob(JobIdOfRequest, body)
                         /\ pc' = "creating"
                         /\ UNCHANGED <<images, i, jobsDb, files, renderLog, response>>

\* await job.save() of the new document; a write error reaches the outer catch
CreateJob ==
    /\ UNCHANGED notGenVars
    /\ pc = "creating"
    /\ \E outcome \in SaveOutcomes :
        IF outcome = "saved"
        THEN /\ jobsDb' = SaveJob(jobsDb, job)
             /\ pc' = "rendering"
             /\ i' = 0
             /\ UNCHANGED response
        ELSE /\ pc' = "done"
             /\ response' = [code |-> 500, error |-> "Failed to generate images"]
             /\ UNCHANGED <<jobsDb, i>>
    /\ UNCHANGED <<req, template, job, images, files, renderLog, statusReply>>

\* one iteration of the render loop up to the end of renderImage: on success
\* the image is collected and the progress is set; on failure the catch
\* records the message and the loop goes on
RenderRow ==
    /\ UNCHANGED notGenVars
    /\ pc = "rendering"
    /\ i < Len(req.data.items)
    /\ \E fault \in RenderFaults :
        LET outputPath == OutputPath(job.jobId, i, job.format)
            r == renderImage(outputPath, fault, files)
        IN  /\ renderLog' = Append(renderLog, i)
            /\ files' = r.files
            /\ IF ~r.threw
               THEN /\ images' = Append(images,
                            [index |-> i,
                             url |-> OutputUrl(job.jobId, i, job.format),
                             base64 |-> r.base64])
                    /\ job' = ProgressedJob(job, i, outputPath)
                    /\ pc' = "saving"
                    /\ UNCHANGED i
               ELSE /\ job' = FailedRowJob(job, i, r.message)
                    /\ i' = AfterCatch(i, Len(req.data.items))
                    /\ UNCHANGED <<images, pc>>
    /\ UNCHANGED <<req, template, jobsDb, response, statusReply>>

\* await job.save() inside the try of the loop: a write error is caught by
\* the per-row catch
SaveProgress ==
    /\ UNCHANGED notGenVars
    /\ pc = "saving"
    /\ \E outcome \in SaveOutcomes :
        IF outcome = "saved"
        THEN /\ jobsDb' = SaveJob(jobsDb, job)
             /\ UNCHANGED job
        ELSE /\ job' = FailedRowJob(job, i, "writeError")
             /\ UNCHANGED jobsDb
    /\ i' = i + 1
    /\ pc' = "rendering"
    /\ UNCHANGED <<req, template, images, files, renderLog, response, statusReply>>

\* after the loop: final status, completedAt, the last save and the response
Finalize ==
    /\ UNCHANGED notGenVars
    /\ pc = "rendering"
    /\ i >= Len(req.data.items)
    /\ LET final == FinalizedJob(job, images)
       IN  /\ job' = final
           /\ \E outcome \in SaveOutcomes :
                IF outcome = "saved"
                THEN /\ jobsDb' = SaveJob(jobsDb, final)
                     /\ response' = [code |-> 200,
                                     jobId |-> final.jobId,
                                     status |-> final.status,
                                     totalItems |-> Len(req.data.items),
                                     processedItems |-> Len(images),
                                     images |-> images,
                                     errors |-> final.errorMessages]
                ELSE /\ UNCHANGED jobsDb
                     /\ response' = [code |-> 500, error |-> "Failed to generate images"]
    /\ pc' = "done"
    /\ UNCHANGED <<req, template, images, i, files, renderLog, statusReply>>

\* router.get('/:jobId')
GetJobStatus ==
    /\ UNCHANGED notGenVars
    /\ \E jobId \in {JobIdOfRequest, "job_other"} :
        statusReply' =
            IF FindJob(jobsDb, jobId) = {}
            THEN [code |-> 404, error |-> "Job not found"]
            ELSE LET found == CHOOSE j \in FindJob(jobsDb, jobId) : TRUE
                 IN  [code |-> 200,
                      jobId |-> found.jobId,
                      templateId |-> found.templateId,
                      status |-> found.status,
                      format |-> found.format,
                      totalItems |-> found.totalItems,
                      processedItems |-> found.processedItems,
                      completedAt |-> found.completedAt,
                      errors |-> found.errorMessages]
    /\ UNCHANGED <<pc, req, template, job, images, i, jobsDb, files, renderLog, response>>

Next ==
    \/ PostImageGen
    \/ CreateJob
    \/ RenderRow
    \/ SaveProgress
    \/ Finalize
    \/ GetJobStatus

Spec == Init /\ [][Next]_vars

\* ------------------------------------------------------------ properties
NumRows == Len(req.data.items)
RowIndices == 0..(NumRows - 1)
JobCreated == FindJob(jobsDb, JobIdOfRequest) # {}
RunFinished == pc = "done" /\ response.code = 200
ImageIndices == {images[k].index : k \in 1..Len(images)}
ErrorIndices == {job.errorMessages[k].index : k \in 1..Len(job.errorMessages)}
IsPrefix(s, t) == Len(s) <= Len(t) /\ \A k \in 1..Len(s) : s[k] = t[k]

\* what the request must satisfy, in the words of the validation rule: a
\* template id, a non-empty data array, an existing template, and every row
\* defines every variable the template declares
ValidRequest(body) ==
    /\ body.templateId # Undefined
    /\ body.data.isArray
    /\ body.data.items # <<>>
    /\ \E t \in StoredTemplates :
        /\ t.templateId = body.templateId
        /\ \A k \in 1..Len(body.data.items) :
            \A n \in 1..Len(t.variables) :
                body.data.items[k][t.variables[n]] # Undefined

\* C1: an invalid generation request (no templateId, no or empty data, unknown
\* template, or a declared variable undefined in some row) is answered with a
\* 400/404 error while no Job exists in memory or in the collection, no render
\* was called and no file was written; a Job exists only for a valid request.
C1_ValidationGate ==
    /\ (pc # "idle" /\ ~ValidRequest(req)) =>
            /\ pc = "done"
            /\ response.code \in {400, 404}
            /\ job = NoJob
            /\ jobsDb = {}
            /\ renderLog = <<>>
            /\ files = {}
    /\ (job # NoJob \/ jobsDb # {} \/ renderLog # <<>>) => ValidRequest(req)

\* a request with two rows or more, rejected because one row lacks a variable
\* that another row supplies
C1_Witness ==
    /\ pc = "done"
    /\ response.code = 400
    /\ req.templateId = "tpl_both"
    /\ Len(req.data.items) >= 2
    /\ \E k \in 1..Len(req.data.items) : req.data.items[k]["author"] = Undefined
    /\ \E k \in 1..Len(req.data.items) : \A v \in Vars : req.data.items[k][v] # Undefined

\* C2: the rows are rendered in input order, each at most once, and once the
\* Job exists and the request has ended every row 0..n-1 was rendered exactly
\* once, whichever rows failed.
C2_BatchIsolation ==
    /\ \A k \in 1..Len(renderLog) : renderLog[k] = k - 1
    /\ Len(renderLog) <= NumRows
    /\ (pc = "done" /\ JobCreated) => Len(renderLog) = NumRows

\* the first row failed and the last of three rows was still rendered
C2_Witness ==
    /\ pc = "done"
    /\ NumRows = 3
    /\ 0 \in ErrorIndices
    /\ 2 \in ImageIndices
    /\ renderLog = <<0, 1, 2>>

\* C3: at the end of a run the persisted processedItems is the number of rows
\* that rendered, which is the length of outputPaths and the processedItems
\* of the response.
C3_ProcessedItemsIsSuccessCount ==
    RunFinished =>
        \A j \in FindJob(jobsDb, JobIdOfRequest) :
            /\ j.processedItems = Len(images)
            /\ j.processedItems = Len(j.outputPaths)
            /\ j.processedItems = response.processedItems

\* C4: once all rows are attempted the status of the Job is 'failed' exactly
\* when no row rendered and an error was recorded, 'completed' otherwise; the
\* response and the persisted record carry no other final status.
C4_FinalStatusRule ==
    LET expected == IF Len(images) = 0 /\ Len(job.errorMessages) > 0
                    THEN "failed" ELSE "completed"
    IN  /\ (pc = "done" /\ Len(renderLog) = NumRows /\ NumRows > 0) =>
                job.status = expected
        /\ RunFinished => response.status = expected
        /\ \A j \in jobsDb : j.status # "processing" => j.status = expected

\* partial success: a finished run with a rendered row and a failed row
C4_Witness ==
    /\ RunFinished
    /\ Len(images) > 0
    /\ Len(job.errorMessages) > 0
    /\ response.status = "completed"

C4_WitnessFailed ==
    /\ RunFinished
    /\ Len(images) = 0
    /\ response.status = "failed"

\* C5: in the response of a finished run every row index is either the index
\* of exactly one image (its url built from that index, images in increasing
\* index order) or the index of exactly one error message, never both and
\* never neither.
C5_Reconciliation ==
    RunFinished =>
        /\ \A k \in 1..Len(response.images) :
                response.images[k].url =
                    OutputUrl(response.jobId, response.images[k].index, job.format)
        /\ \A k, m \in 1..Len(response.images) :
                k < m => response.images[k].index < response.images[m].index
        /\ \A idx \in RowIndices :
            LET inImages == {k \in 1..Len(response.images) :
                                response.images[k].index = idx}
                inErrors == {k \in 1..Len(response.errors) :
                                response.errors[k].index = idx}
            IN  \/ Cardinality(inImages) = 1 /\ inErrors = {}
                \/ inImages = {} /\ Cardinality(inErrors) = 1

\* C6: after a run the file {jobId}_{i}.{format} exists exactly for the rows
\* reported as rendered; a row reported as failed has no file.
C6_OutputLayout ==
    RunFinished =>
        \A idx \in RowIndices :
            OutputPath(job.jobId, idx, job.format) \in files
                <=> idx \in ImageIndices

\* C7: while a render can run the Job is in the collection with totalItems =
\* number of rows, and when the first render starts the persisted record is
\* 'processing' with processedItems 0.
C7_CreatedBeforeRender ==
    /\ (pc \in {"rendering", "saving"} \/ renderLog # <<>>) =>
            /\ JobCreated
            /\ \A j \in FindJob(jobsDb, JobIdOfRequest) : j.totalItems = NumRows
    /\ (pc = "rendering" /\ i = 0) =>
            /\ renderLog = <<>>
            /\ FindJob(jobsDb, JobIdOfRequest) = {NewJob(JobIdOfRequest, req)}
            /\ \A j \in jobsDb :
                j.status = "processing" /\ j.processedItems = 0

\* a status query answered while the first of three renders is pending
C7_Witness ==
    /\ pc = "rendering"
    /\ i = 0
    /\ NumRows = 3
    /\ statusReply.code = 200
    /\ statusReply.status = "processing"
    /\ statusReply.totalItems = 3

\* C8 as stated: every created Job ends with a final status and completedAt
\* in the persisted record.
C8_AlwaysFinalized ==
    (pc = "done" /\ JobCreated) =>
        \A j \in FindJob(jobsDb, JobIdOfRequest) :
            j.status \in {"completed", "failed"} /\ j.completedAt # Undefined

\* C8 amended: a Job whose final save succeeds (the request answers 200) is
\* persisted with a final status and completedAt; in every persisted state
\* completedAt is set exactly when the status is not 'processing'.
C8_FinalizedWhenSaved ==
    /\ RunFinished =>
            /\ JobCreated
            /\ \A j \in FindJob(jobsDb, JobIdOfRequest) :
                j.status \in {"completed", "failed"} /\ j.completedAt # Undefined
    /\ \A j \in jobsDb :
            /\ j.status \in {"processing", "completed", "failed"}
            /\ j.completedAt # Undefined <=> j.status # "processing"

C8_Witness ==
    /\ RunFinished
    /\ NumRows >= 2
    /\ \E j \in jobsDb : j.status = "completed" /\ j.completedAt = Now

\* C9: a step never rolls the persisted Job back: the record stays, its
\* processedItems does not decrease, outputPaths and errorMessages only grow
\* at the end, and a final status never changes.
C9_NoRollback ==
    [][\A j \in jobsDb :
        /\ FindJob(jobsDb', j.jobId) # {}
        /\ \A j2 \in FindJob(jobsDb', j.jobId) :
            /\ j2.processedItems >= j.processedItems
            /\ IsPrefix(j.outputPaths, j2.outputPaths)
            /\ IsPrefix(j.errorMessages, j2.errorMessages)
            /\ j.status # "processing" => j2.status = j.status
            /\ j2.status \in {"processing", "completed", "failed"}]_vars

\* a persisted record that went through two progress saves and a final save
\* with an error recorded
C9_Witness ==
    \E j \in jobsDb :
        /\ j.status = "completed"
        /\ Len(j.outputPaths) >= 2
        /\ Len(j.errorMessages) >= 1

\* C10: whenever the next row's render is about to start, the persisted
\* record holds the outcome of every row attempted so far, so a status query
\* reports the errors of all rows that already failed.
C10_IncrementalBookkeeping ==
    (pc = "rendering" /\ i < NumRows) =>
        \A j \in FindJob(jobsDb, JobIdOfRequest) :
            /\ j.errorMessages = job.errorMessages
            /\ j.outputPaths = job.outputPaths

\* C11: a failed write of the Job record ends the request with a 500: no
\* failed progress save is recorded as the error of a row while the batch
\* goes on, and no request that lost a write answers 200.
C11_WriteFailureIsFatal ==
    /\ \A k \in 1..Len(job.errorMessages) :
            job.errorMessages[k].message # "writeError"
    /\ RunFinished =>
            \A k \in 1..Len(response.errors) :
                response.errors[k].message # "writeError"

\* ------------------------------------------- a render call that never settles
\* await renderImage(...) on a promise that neither resolves nor rejects
\* (loadFromJSON never calls back, the screenshot never returns): the handler
\* has no timer around the call and stays suspended in the loop
RenderHangs ==
    /\ pc = "rendering"
    /\ i < Len(req.data.items)
    /\ pc' = "hung"
    /\ renderLog' = Append(renderLog, i)
    /\ UNCHANGED <<req, template, job, images, i, jobsDb, files, response,
                   statusReply>>
    /\ UNCHANGED notGenVars

HangNext ==
    \/ PostImageGen
    \/ CreateJob
    \/ RenderRow
    \/ RenderHangs
    \/ SaveProgress
    \/ Finalize
    \/ GetJobStatus

\* the event loop resumes the handler whenever the promise it awaits settles
HandlerStep == PostImageGen \/ CreateJob \/ RenderRow \/ SaveProgress \/ Finalize

HangSpec == Init /\ [][HangNext]_vars /\ WF_vars(HandlerStep)

\* C12: a render call that hangs is turned into a failure of its row: the
\* row gets an error entry, the later rows are attempted and the request
\* ends.
C12_HangBecomesRowFailure ==
    (pc = "hung") ~>
        (/\ pc = "done"
         /\ Len(renderLog) = NumRows
         /\ Len(job.errorMessages) > 0)

\* ------------------------------------------------------ the template routes
MaxObjects == 3

NoData == [defined |-> FALSE, isDynamic |-> FALSE, variableName |-> ""]
Bound(name) == [defined |-> TRUE, isDynamic |-> TRUE, variableName |-> name]

\* the width every object of the model's documents was authored with
BoxWidth == 2

\* a fabric object as serialized in fabricJson.objects: its type, its data
\* annotation, its text, its width and scale, and for a group the objects it
\* contains
FabricObject(type, data, text, children) ==
    [type |-> type, data |-> data, text |-> text, objects |-> children,
     width |-> Int2R(BoxWidth), scaleX |-> One, scaleY |-> One]

\* the objects the documents of the model are made of: dynamic textboxes, a
\* textbox whose {{}} placeholder gave it an empty name, a dynamic image, and
\* a group without data that holds a dynamic textbox
Elements ==
    {FabricObject("textbox", Bound("headline"), "{{headline}}", <<>>),
     FabricObject("textbox", Bound("author"), "{{author}}", <<>>),
     FabricObject("textbox", Bound(""), "{{}}", <<>>),
     FabricObject("image", Bound("author"), "", <<>>),
     FabricObject("group", NoData, "",
        <<FabricObject("textbox", Bound("headline"), "{{headline}}", <<>>)>>)}

\* fabricJson values: with an objects array of 0..MaxObjects objects, or
\* without one; NoDoc is a request body without fabricJson
Docs ==
    [defined : {TRUE}, hasObjects : {TRUE},
     objects : UNION {[1..n -> Elements] : n \in 0..MaxObjects}]
    \cup {[defined |-> TRUE, hasObjects |-> FALSE, objects |-> <<>>]}
NoDoc == [defined |-> FALSE, hasObjects |-> FALSE, objects |-> <<>>]

TemplateIdPool == {"tmpl_1"}

\* [...new Set(variables)]: the first occurrence of each value, in order
RECURSIVE Distinct(_)
Distinct(s) ==
    IF s = <<>> THEN <<>>
    ELSE LET front == Distinct(SubSeq(s, 1, Len(s) - 1))
             last == s[Len(s)]
         IN  IF \E k \in 1..Len(front) : front[k] = last
             THEN front ELSE Append(front, last)

\* obj.data?.isDynamic && obj.data?.variableName
IsBound(obj) ==
    obj.data.defined /\ obj.data.isDynamic /\ obj.data.variableName # ""

\* the loop of extractVariables over fabricJson.objects
RECURSIVE PushedNames(_)
PushedNames(objs) ==
    IF objs = <<>> THEN <<>>
    ELSE LET rest == PushedNames(SubSeq(objs, 1, Len(objs) - 1))
             obj == objs[Len(objs)]
         IN  IF IsBound(obj) THEN Append(rest, obj.data.variableName) ELSE rest

extractVariables_noDedupe(fabricJson) ==
    IF fabricJson.defined /\ fabricJson.hasObjects
    THEN PushedNames(fabricJson.objects) ELSE <<>>

extractVariables(fabricJson) ==
    IF fabricJson.defined /\ fabricJson.hasObjects
    THEN Distinct(PushedNames(fabricJson.objects)) ELSE <<>>

\* new Template({ templateId, name, ..., fabricJson, variables })
NewTemplate(templateId, body) ==
    [templateId |-> templateId,
     name |-> body.name,
     fabricJson |-> body.fabricJson,
     variables |-> extractVariables(body.fabricJson)]

\* if (name) template.name = name; if (fabricJson) { template.fabricJson =
\* fabricJson; template.variables = extractVariables(fabricJson) }
UpdatedTemplate_stale(tpl, body) ==
    [tpl EXCEPT
        !.name = IF body.name # Undefined THEN body.name ELSE @,
        !.fabricJson = IF body.fabricJson.defined THEN body.fabricJson ELSE @]

UpdatedTemplate(tpl, body) ==
    [tpl EXCEPT
        !.name = IF body.name # Undefined THEN body.name ELSE @,
        !.fabricJson = IF body.fabricJson.defined THEN body.fabricJson ELSE @,
        !.variables = IF body.fabricJson.defined
                      THEN extractVariables(body.fabricJson) ELSE @]

TemplateBodies == [name : {Undefined, "Quote"}, fabricJson : Docs \cup {NoDoc}]
\* an update either renames the template or replaces its document
UpdateBodies ==
    [name : {Undefined, "Renamed"}, fabricJson : {NoDoc}]
    \cup [name : {Undefined}, fabricJson : Docs]

\* router.post('/') of the template routes
PostTemplate ==
    /\ \E body \in TemplateBodies :
        IF body.name = Undefined \/ ~body.fabricJson.defined
        THEN /\ tplResponse' = 400
             /\ UNCHANGED templatesDb
        ELSE \E templateId \in TemplateIdPool, outcome \in SaveOutcomes :
                /\ \A t \in templatesDb : t.templateId # templateId
                /\ IF outcome = "saved"
                   THEN /\ templatesDb' = templatesDb \cup {NewTemplate(templateId, body)}
                        /\ tplResponse' = 201
                   ELSE /\ tplResponse' = 500
                        /\ UNCHANGED templatesDb
    /\ UNCHANGED notTplVars

\* router.put('/:id')
PutTemplate ==
    /\ \E id \in TemplateIdPool \cup {"tmpl_gone"} :
        LET found == {t \in templatesDb : t.templateId = id}
        IN  IF found = {}
            THEN /\ tplResponse' = 404
                 /\ UNCHANGED templatesDb
            ELSE \/ /\ tplResponse' = 500
                    /\ UNCHANGED templatesDb
                 \/ \E tpl \in found, body \in UpdateBodies :
                        /\ templatesDb' =
                                (templatesDb \ {tpl}) \cup {UpdatedTemplate(tpl, body)}
                        /\ tplResponse' = 200
    /\ UNCHANGED notTplVars

\* router.delete('/:id')
DeleteTemplate ==
    /\ \E id \in TemplateIdPool \cup {"tmpl_gone"} :
        LET found == {t \in templatesDb : t.templateId = id}
        IN  /\ templatesDb' = templatesDb \ found
            /\ tplResponse' = IF found = {} THEN 404 ELSE 204
    /\ UNCHANGED notTplVars

TemplateNext ==
    \/ PostTemplate
    \/ PutTemplate
    \/ DeleteTemplate

TemplateSpec == Init /\ [][TemplateNext]_vars

\* the bound objects of a list of objects, and the first position of a name
BoundPositions(objs) == {k \in 1..Len(objs) : IsBound(objs[k])}
FirstPosition(objs, name) ==
    CHOOSE k \in BoundPositions(objs) :
        /\ objs[k].data.variableName = name
        /\ \A m \in BoundPositions(objs) :
            objs[m].data.variableName = name => k <= m
TopLevelObjects(doc) == IF doc.hasObjects THEN doc.objects ELSE <<>>

\* C13: the variables of a stored template are the names of the objects of
\* its document with isDynamic true and a non-empty variableName, each once,
\* ordered by first occurrence; a document without an objects list, with an
\* empty one or without bound objects has the empty list and is accepted.
C13_ExtractDistinctInOrder ==
    \A t \in templatesDb :
        LET objs == TopLevelObjects(t.fabricJson)
            v == extractVariables(t.fabricJson)
        IN  /\ \A p, q \in 1..Len(v) : p # q => v[p] # v[q]
            /\ {v[p] : p \in 1..Len(v)} =
                    {objs[k].data.variableName : k \in BoundPositions(objs)}
            /\ \A p, q \in 1..Len(v) :
                    p < q => FirstPosition(objs, v[p]) < FirstPosition(objs, v[q])
            /\ t.variables = v

\* {a, a, b}: a stored document whose bound objects name headline twice and
\* then author
C13_Witness ==
    \E t \in templatesDb :
        /\ Len(t.fabricJson.objects) = 3
        /\ \A k \in 1..3 : IsBound(t.fabricJson.objects[k])
        /\ t.fabricJson.objects[1].data.variableName = "headline"
        /\ t.fabricJson.objects[2].data.variableName = "headline"
        /\ t.fabricJson.objects[3].data.variableName = "author"
        /\ t.variables = <<"headline", "author">>

C13_WitnessEmpty ==
    \E t \in templatesDb : ~t.fabricJson.hasObjects /\ t.variables = <<>>

\* C14: a dynamic binding on an object at any nesting depth (an object inside
\* a group) is among the extracted variables.
C14_ExtractRecursesIntoGroups ==
    \A t \in templatesDb :
        LET objs == TopLevelObjects(t.fabricJson)
            v == extractVariables(t.fabricJson)
        IN  \A k \in 1..Len(objs) :
                \A c \in 1..Len(objs[k].objects) :
                    IsBound(objs[k].objects[c]) =>
                        \E p \in 1..Len(v) :
                            v[p] = objs[k].objects[c].data.variableName

\* C15: after any sequence of creates and updates the stored variables are
\* the variables extracted from the stored document.
C15_VariablesCacheInSync ==
    \A t \in templatesDb : t.variables = extractVariables(t.fabricJson)

\* a template updated without fabricJson (renamed by the update, so the
\* create cannot have produced it) whose document declares variables
C15_Witness ==
    /\ tplResponse = 200
    /\ \E t \in templatesDb :
        /\ t.name = "Renamed"
        /\ t.variables = <<"author", "headline">>
        /\ Len(t.fabricJson.objects) = 2

\* ------------------------------------------- substitution inside the page
SubstRows == [Vars -> {Undefined, "x", "y"}]

\* if (obj.type === 'textbox' && obj.data?.isDynamic && obj.data?.variableName)
\*   if (variables[varName] !== undefined) obj.set('text', variables[varName])
\* (the field text stands for the content of an object of any type)
SubstituteObject(obj, variables) ==
    IF /\ obj.type = "textbox"
       /\ obj.data.defined /\ obj.data.isDynamic /\ obj.data.variableName # ""
       /\ variables[obj.data.variableName] # Undefined
    THEN [obj EXCEPT !.text = variables[obj.data.variableName]]
    ELSE obj

\* the loop over canvas.getObjects(), the top-level objects of the canvas
SubstituteAll(objs, variables) ==
    [k \in 1..Len(objs) |-> SubstituteObject(objs[k], variables)]

\* canvas.loadFromJSON(json, ...): the canvas gets objects built from json
LoadFromJSON(json) == IF json.hasObjects THEN json.objects ELSE <<>>

\* page.evaluate(callback, fabricJson, data, ...): the arguments are
\* serialized into the page, the callback works on the copy; canvas is the
\* canvas of the page afterwards, json the caller's document afterwards
EvaluateInPage_inPlace(json, variables) ==
    [canvas |-> SubstituteAll(LoadFromJSON(json), variables),
     json |-> IF json.hasObjects
              THEN [json EXCEPT !.objects = SubstituteAll(json.objects, variables)]
              ELSE json]

EvaluateInPage(json, variables) ==
    [canvas |-> SubstituteAll(LoadFromJSON(json), variables),
     json |-> json]

\* the generation handler has loaded a stored template
SubstInit ==
    /\ GenInit
    /\ BrowserInit
    /\ EditorIdle
    /\ tplResponse = 0
    /\ \E doc \in Docs :
        /\ templatesDb = {NewTemplate("tmpl_1", [name |-> "Quote", fabricJson |-> doc])}
        /\ loadedDoc = doc
    /\ canvas = [r \in Renders |-> <<>>]
    /\ rPc = [r \in Renders |-> "idle"]
    /\ rData = [r \in Renders |-> [v \in Vars |-> Undefined]]

\* renderImage({ fabricJson: template.fabricJson, data: data[i], ... }) up
\* to the harness page being ready
StartRender(r) ==
    /\ rPc[r] = "idle"
    /\ \E row \in SubstRows : rData' = [rData EXCEPT ![r] = row]
    /\ rPc' = [rPc EXCEPT ![r] = "page"]
    /\ UNCHANGED <<loadedDoc, canvas>>
    /\ UNCHANGED <<genVars, tplVars, brVars, edVars>>

\* await page.evaluate(...): load, substitute, renderAll
Evaluate(r) ==
    /\ rPc[r] = "page"
    /\ LET e == EvaluateInPage(loadedDoc, rData[r])
       IN  /\ canvas' = [canvas EXCEPT ![r] = e.canvas]
           /\ loadedDoc' = e.json
    /\ rPc' = [rPc EXCEPT ![r] = "rendered"]
    /\ UNCHANGED rData
    /\ UNCHANGED <<genVars, tplVars, brVars, edVars>>

\* screenshot and page.close(): the page and its canvas are gone
FinishRender(r) ==
    /\ rPc[r] = "rendered"
    /\ rPc' = [rPc EXCEPT ![r] = "idle"]
    /\ canvas' = [canvas EXCEPT ![r] = <<>>]
    /\ UNCHANGED <<loadedDoc, rData>>
    /\ UNCHANGED <<genVars, tplVars, brVars, edVars>>

SubstNext ==
    \/ \E r \in Renders : StartRender(r)
    \/ \E r \in Renders : Evaluate(r)
    \/ \E r \in Renders : FinishRender(r)

SubstSpec == SubstInit /\ [][SubstNext]_vars

StoredObjects == LoadFromJSON(loadedDoc)
\* every object of the document with its objects at any depth
AllObjectsOf(objs) ==
    {objs[k] : k \in 1..Len(objs)}
    \cup UNION {{objs[k].objects[c] : c \in 1..Len(objs[k].objects)} :
                    k \in 1..Len(objs)}

\* C16: in the canvas of a render every object whose binding names a key of
\* the row has the row's value as content, and every object whose binding
\* names no key of the row has the content of the document; so every
\* variable extractVariables declares is substituted where it is declared.
C16_SubstitutionCoversBindings ==
    \A r \in Renders :
        rPc[r] = "rendered" =>
            /\ Len(canvas[r]) = Len(StoredObjects)
            /\ \A k \in 1..Len(canvas[r]) :
                LET obj == StoredObjects[k]
                IN  IF IsBound(obj) /\ rData[r][obj.data.variableName] # Undefined
                    THEN canvas[r][k].text = rData[r][obj.data.variableName]
                    ELSE canvas[r][k].text = obj.text

\* C20: no step of a render changes the stored template or the document the
\* handler holds, and the canvas of a render holds, object by object, the
\* document's object with either its own content or the value of this
\* render's row, whatever the other render substituted.
C20_RendersLeaveTemplateAlone ==
    /\ [][templatesDb' = templatesDb /\ loadedDoc' = loadedDoc]_vars
    /\ [](\A t \in templatesDb : t.fabricJson = loadedDoc)
    /\ [](\A r \in Renders :
            rPc[r] = "rendered" =>
                /\ Len(canvas[r]) = Len(LoadFromJSON(loadedDoc))
                /\ \A k \in 1..Len(canvas[r]) :
                    \E t \in templatesDb :
                        LET obj == t.fabricJson.objects[k]
                        IN  \/ canvas[r][k] = obj
                            \/ /\ IsBound(obj)
                               /\ rData[r][obj.data.variableName] # Undefined
                               /\ canvas[r][k] =
                                    [obj EXCEPT !.text = rData[r][obj.data.variableName]])

\* two renders of one template side by side: one substituted "x" into a
\* textbox, the other, whose row lacks that variable, shows the placeholder
C20_Witness ==
    /\ rPc[1] = "rendered" /\ rPc[2] = "rendered"
    /\ rData[1]["headline"] = "x" /\ rData[2]["headline"] = Undefined
    /\ \E k \in 1..Len(canvas[1]) :
        /\ canvas[1][k].text = "x"
        /\ canvas[2][k].text = "{{headline}}"

\* ------------------------------------- the browser singleton and its calls
LiveBrowsers == {b \in BrowserIds : procs[b] = "live"}
UnusedIds == {b \in BrowserIds : procs[b] = "none"}
NextProcess == CHOOSE b \in UnusedIds : \A b2 \in UnusedIds : b <= b2
ShutDown == closePc = "done"
notBrVars == <<genVars, tplVars, subVars, edVars>>

\* renderImage entry: initBrowser() tests !browser and either awaits
\* puppeteer.launch() or returns the cached browser
CallRenderImage(c) ==
    /\ ~ShutDown
    /\ cPc[c] = "idle"
    /\ IF browser = 0
       THEN /\ UnusedIds # {}
            /\ cPc' = [cPc EXCEPT ![c] = "launching"]
            /\ cBrowser' = [cBrowser EXCEPT ![c] = 0]
       ELSE /\ cPc' = [cPc EXCEPT ![c] = "newPage"]
            /\ cBrowser' = [cBrowser EXCEPT ![c] = browser]
    /\ cPage' = [cPage EXCEPT ![c] = "null"]
    /\ cFonts' = [cFonts EXCEPT ![c] = FALSE]
    /\ cResult' = [cResult EXCEPT ![c] = "running"]
    /\ UNCHANGED <<browser, procs, closePc, closeTarget>>
    /\ UNCHANGED notBrVars

\* browser = await puppeteer.launch(...); return browser  -- or launch throws,
\* before the try of renderImage
LaunchSettles(c) ==
    /\ ~ShutDown
    /\ cPc[c] = "launching"
    /\ \/ /\ UnusedIds # {}
          /\ procs' = [procs EXCEPT ![NextProcess] = "live"]
          /\ browser' = NextProcess
          /\ cBrowser' = [cBrowser EXCEPT ![c] = NextProcess]
          /\ cPc' = [cPc EXCEPT ![c] = "newPage"]
          /\ UNCHANGED cResult
       \/ /\ cPc' = [cPc EXCEPT ![c] = "idle"]
          /\ cResult' = [cResult EXCEPT ![c] = "error"]
          /\ UNCHANGED <<procs, browser, cBrowser>>
    /\ UNCHANGED <<cPage, cFonts, closePc, closeTarget>>
    /\ UNCHANGED notBrVars

\* page = await browserInstance.newPage(): rejects on a browser that is gone
NewPage(c) ==
    /\ ~ShutDown
    /\ cPc[c] = "newPage"
    /\ IF procs[cBrowser[c]] = "live"
       THEN /\ cPage' = [cPage EXCEPT ![c] = "open"]
            /\ cPc' = [cPc EXCEPT ![c] = "setup"]
            /\ UNCHANGED cResult
       ELSE /\ cPc' = [cPc EXCEPT ![c] = "finally"]
            /\ cResult' = [cResult EXCEPT ![c] = "error"]
            /\ UNCHANGED cPage
    /\ UNCHANGED <<browser, procs, cBrowser, cFonts, closePc, closeTarget>>
    /\ UNCHANGED notBrVars

\* one awaited step of the try block on a live page
PageStep(c, from, to) ==
    /\ ~ShutDown
    /\ cPc[c] = from
    /\ procs[cBrowser[c]] = "live"
    /\ cPc' = [cPc EXCEPT ![c] = to]
    /\ UNCHANGED <<browser, procs, cBrowser, cPage, closePc, closeTarget>>
    /\ UNCHANGED notBrVars

\* setViewport, goto(harness), await page.evaluateHandle('document.fonts.ready'):
\* no font load is pending in the harness page before the document is loaded
SetupPage(c) ==
    /\ PageStep(c, "setup", "evaluate")
    /\ UNCHANGED <<cFonts, cResult>>

\* page.evaluate: loadFromJSON and renderAll; drawing text in a font that is
\* not loaded yet starts its load
EvaluateDocument(c) ==
    /\ PageStep(c, "evaluate", "delay")
    /\ \E startsLoad \in BOOLEAN : cFonts' = [cFonts EXCEPT ![c] = startsLoad]
    /\ UNCHANGED cResult

\* the font load of the page completes
FontLoaded(c) ==
    /\ ~ShutDown
    /\ cFonts[c]
    /\ cPage[c] = "open"
    /\ cFonts' = [cFonts EXCEPT ![c] = FALSE]
    /\ UNCHANGED <<browser, procs, cPc, cBrowser, cPage, cResult, closePc, closeTarget>>
    /\ UNCHANGED notBrVars

\* await new Promise((resolve) => setTimeout(resolve, 100)); page.$('#canvas')
DelayElapsed(c) ==
    /\ PageStep(c, "delay", "screenshot")
    /\ UNCHANGED <<cFonts, cResult>>

\* await canvasElement.screenshot(...)
Screenshot(c) ==
    /\ PageStep(c, "screenshot", "readback")
    /\ UNCHANGED <<cFonts, cResult>>

\* fs.readFileSync, return base64: the finally block is next
ReadBack(c) ==
    /\ PageStep(c, "readback", "finally")
    /\ cResult' = [cResult EXCEPT ![c] = "ok"]
    /\ UNCHANGED cFonts

\* any awaited step of the try block throws
StepThrows(c) ==
    /\ ~ShutDown
    /\ cPc[c] \in {"setup", "evaluate", "delay", "screenshot", "readback"}
    /\ cPc' = [cPc EXCEPT ![c] = "finally"]
    /\ cResult' = [cResult EXCEPT ![c] = "error"]
    /\ UNCHANGED <<browser, procs, cBrowser, cPage, cFonts, closePc, closeTarget>>
    /\ UNCHANGED notBrVars

\* finally { if (page) await page.close() }: on a browser that is gone the
\* page is gone and close() rejects
FinallyClosePage(c) ==
    /\ ~ShutDown
    /\ cPc[c] = "finally"
    /\ cPc' = [cPc EXCEPT ![c] = "idle"]
    /\ IF cPage[c] = "null"
       THEN UNCHANGED <<cPage, cResult>>
       ELSE /\ cPage' = [cPage EXCEPT ![c] = "closed"]
            /\ cResult' = [cResult EXCEPT ![c] =
                    IF procs[cBrowser[c]] = "live" THEN @ ELSE "error"]
    /\ cFonts' = [cFonts EXCEPT ![c] = FALSE]
    /\ UNCHANGED <<browser, procs, cBrowser, closePc, closeTarget>>
    /\ UNCHANGED notBrVars

\* the browser process dies (killed, out of memory): its pages are gone, the
\* module variable keeps the Browser object
BrowserCrashes ==
    /\ ~ShutDown
    /\ \E b \in LiveBrowsers :
        /\ procs' = [procs EXCEPT ![b] = "crashed"]
        /\ cPage' = [c \in Calls |->
                IF cBrowser[c] = b /\ cPage[c] = "open" THEN "closed" ELSE cPage[c]]
        /\ cFonts' = [c \in Calls |-> IF cBrowser[c] = b THEN FALSE ELSE cFonts[c]]
    /\ UNCHANGED <<browser, cPc, cBrowser, cResult, closePc, closeTarget>>
    /\ UNCHANGED notBrVars

\* SIGTERM / SIGINT: closeBrowser() tests browser and awaits browser.close()
CloseBrowserStart ==
    /\ closePc = "idle"
    /\ IF browser # 0
       THEN /\ closePc' = "closing"
            /\ closeTarget' = browser
       ELSE /\ closePc' = "done"
            /\ UNCHANGED closeTarget
    /\ UNCHANGED <<browser, procs, cPc, cBrowser, cPage, cFonts, cResult>>
    /\ UNCHANGED notBrVars

\* browser.close() has settled; browser = null; the handler goes on to
\* process.exit(0)
CloseBrowserDone ==
    /\ closePc = "closing"
    /\ procs' = [procs EXCEPT ![closeTarget] =
                    IF @ = "live" THEN "closed" ELSE @]
    /\ cPage' = [c \in Calls |->
            IF cBrowser[c] = closeTarget /\ cPage[c] = "open" THEN "closed" ELSE cPage[c]]
    /\ cFonts' = [c \in Calls |-> IF cBrowser[c] = closeTarget THEN FALSE ELSE cFonts[c]]
    /\ browser' = 0
    /\ closePc' = "done"
    /\ UNCHANGED <<cPc, cBrowser, cResult, closeTarget>>
    /\ UNCHANGED notBrVars

BrowserNext ==
    \/ \E c \in Calls : CallRenderImage(c)
    \/ \E c \in Calls : LaunchSettles(c)
    \/ \E c \in Calls : NewPage(c)
    \/ \E c \in Calls : SetupPage(c)
    \/ \E c \in Calls : EvaluateDocument(c)
    \/ \E c \in Calls : FontLoaded(c)
    \/ \E c \in Calls : DelayElapsed(c)
    \/ \E c \in Calls : Screenshot(c)
    \/ \E c \in Calls : ReadBack(c)
    \/ \E c \in Calls : StepThrows(c)
    \/ \E c \in Calls : FinallyClosePage(c)
    \/ BrowserCrashes
    \/ CloseBrowserStart
    \/ CloseBrowserDone

BrowserSpec == Init /\ [][BrowserNext]_vars

\* C17: the screenshot of a render is taken only when no font load started by
\* loading the document is pending in its page.
C17_ScreenshotAfterFonts ==
    [][\A c \in Calls :
        (cPc[c] = "screenshot" /\ cPc'[c] = "readback") => ~cFonts[c]]_vars

\* C18: a renderImage call that has failed left no page open, and a call
\* made after a failed one (no shutdown under way) is given a browser it can
\* open a page on.
C18_FailureLeavesServiceUsable ==
    /\ [](\A c \in Calls :
            (cPc[c] = "idle" /\ cResult[c] = "error") => cPage[c] # "open")
    /\ [][\A c \in Calls :
            (/\ cPc[c] = "idle" /\ cResult[c] = "error"
             /\ closePc = "idle"
             /\ cPc'[c] = "newPage")
            => procs[cBrowser'[c]] = "live"]_vars

\* C19: at most one launched browser process is live at any time, and once
\* closeBrowser has completed none is left.
C19_SingleBrowser ==
    /\ Cardinality(LiveBrowsers) <= 1
    /\ ShutDown => LiveBrowsers = {}

\* ------------------------------------------ the cover scale of an image
\* frame diameters and natural image sizes are whole numbers 1..MaxDim
MaxDim == 12
Dims == {Int2R(n) : n \in 1..MaxDim}

\* const imgWidth = img.width || 100
DefaultImageSize == 100

\* createFramedImageGroup: Math.max(diameter / imgWidth, diameter / imgHeight)
\* with diameter = frameRadius * 2, imgWidth = img.width || 100
CoverScale_contain(frameRadius, width, height) ==
    LET diameter == Times(frameRadius, Int2R(2))
    IN  MathMin(Over(diameter, OrElse(width, Int2R(DefaultImageSize))),
                Over(diameter, OrElse(height, Int2R(DefaultImageSize))))

CoverScale(frameRadius, width, height) ==
    LET diameter == Times(frameRadius, Int2R(2))
    IN  MathMax(Over(diameter, OrElse(width, Int2R(DefaultImageSize))),
                Over(diameter, OrElse(height, Int2R(DefaultImageSize))))

\* some frame and some loaded image, nothing computed yet
CoverInit ==
    /\ GenInit
    /\ templatesDb = {}
    /\ tplResponse = 0
    /\ SubIdle
    /\ BrowserInit
    /\ \E d \in Dims : cvRadius = RDiv(d, Int2R(2))
    /\ cvWidth \in Dims
    /\ cvHeight \in Dims
    /\ cvScale = NoNumber
    /\ FrameIdle
    /\ NewTextbox
    /\ HistoryIdle
    /\ Clean

\* createFramedImageGroup computes the scale of the image
PlaceImage ==
    /\ cvScale = NoNumber
    /\ cvScale' = CoverScale(cvRadius, cvWidth, cvHeight)
    /\ UNCHANGED <<cvRadius, cvWidth, cvHeight>>
    /\ UNCHANGED <<genVars, tplVars, subVars, brVars, frVars, bdVars, hsVars, dtVars>>

CoverNext == PlaceImage

CoverSpec == CoverInit /\ [][CoverNext]_vars

\* the diameter of the frame and the extent of the scaled image, as real
\* numbers
CoverDiameter == RMul(cvRadius, Int2R(2))
CoveredWidth == RMul(cvScale, cvWidth)
CoveredHeight == RMul(cvScale, cvHeight)

\* the rounding error one division can leave on an extent: diameter * 2^-p
CoverTolerance == RDiv(CoverDiameter, Int2R(Pow2(MantissaBits)))

\* C23: the cover scale s of a placed image satisfies s*w >= d and s*h >= d,
\* with equality on at least one axis.
C23_CoverScaleCovers ==
    cvScale # NoNumber =>
        /\ RLe(CoverDiameter, CoveredWidth)
        /\ RLe(CoverDiameter, CoveredHeight)
        /\ (CoveredWidth = CoverDiameter \/ CoveredHeight = CoverDiameter)

\* C23 as it holds: both extents reach the diameter up to the rounding of
\* the division, and one of them is within that rounding of the diameter.
C23_CoverScaleCoversWithinRounding ==
    cvScale # NoNumber =>
        /\ RLe(RSub(CoverDiameter, CoverTolerance), CoveredWidth)
        /\ RLe(RSub(CoverDiameter, CoverTolerance), CoveredHeight)
        /\ \/ RLe(RAbs(RSub(CoveredWidth, CoverDiameter)), CoverTolerance)
           \/ RLe(RAbs(RSub(CoveredHeight, CoverDiameter)), CoverTolerance)

\* a placed image whose quotient d/w was rounded down: neither extent equals
\* the diameter and one is short of it
C23_Witness ==
    /\ cvScale # NoNumber
    /\ CoveredWidth # CoverDiameter
    /\ CoveredHeight # CoverDiameter
    /\ RLt(CoveredWidth, CoverDiameter)

\* ------------------------------------------------- circle frame operations
\* every run is followed for at most MaxFrameOps operations
MaxFrameOps == 4

\* frame.width || 200 and data.frameRadius || 100
DefaultFrameSize == 200
DefaultFrameRadius == 100

Two == Int2R(2)

\* where the user can put or drag an object, and the radius of a new frame
Positions == {<<Zero, Zero>>, <<Int2R(3), One>>}
Radii == {One, Two}
\* scale factors <<scaleX, scaleY>> the resize handles can leave on an
\* object: the corner handles scale uniformly, the side handles one axis
ObjScales == {<<Rat(1, 2), Rat(1, 2)>>, <<Two, Two>>, <<Two, One>>}
\* natural sizes of the images the user can load
Images ==
    {[width |-> Int2R(4), height |-> Int2R(4)],
     [width |-> Int2R(8), height |-> Two],
     [width |-> One, height |-> Two]}
\* positions of the panel's Zoom slider (0.5 .. 3) and offset sliders
SliderScales == {Rat(1, 2), Int2R(3)}
SliderOffsets == {Zero, One}

\* createCircleFrame: a group at top-left (x, y) whose size is that of its
\* bounding rectangle, diameter x diameter
createCircleFrame(x, y, radius) ==
    [hasImage |-> FALSE, left |-> x, top |-> y,
     width |-> Times(radius, Two), height |-> Times(radius, Two),
     scaleX |-> One, scaleY |-> One,
     clipPath |-> NoClip, image |-> NoImage,
     data |-> FrameData(One, Zero, Zero, NoNumber, NoNumber, NoNumber)]

\* createFramedImageGroup: a group with centre origin at (centerX, centerY),
\* forced to diameter x diameter, clipped by a circle at its centre
createFramedImageGroup(img, frameRadius, centerX, centerY) ==
    [hasImage |-> TRUE, left |-> centerX, top |-> centerY,
     width |-> Times(frameRadius, Two), height |-> Times(frameRadius, Two),
     scaleX |-> One, scaleY |-> One,
     clipPath |-> <<Zero, Zero>>, image |-> img,
     data |-> FrameData(CoverScale(frameRadius, img.width, img.height),
                        Zero, Zero,
                        OrElse(img.width, Int2R(DefaultImageSize)),
                        OrElse(img.height, Int2R(DefaultImageSize)),
                        frameRadius)]

\* the rendered size of an object: width * scaleX, height * scaleY
ActualWidth(f) ==
    Times(OrElse(f.width, Int2R(DefaultFrameSize)), OrElse(f.scaleX, One))
ActualHeight(f) ==
    Times(OrElse(f.height, Int2R(DefaultFrameSize)), OrElse(f.scaleY, One))

\* dropImageOnFrame and addImageToFrame: the group that replaces the frame
dropImageOnFrame(f, img) ==
    LET frameRadius == Over(MathMin(ActualWidth(f), ActualHeight(f)), Two)
        frameCenterX == Plus(OrElse(f.left, Zero), Over(ActualWidth(f), Two))
        frameCenterY == Plus(OrElse(f.top, Zero), Over(ActualHeight(f), Two))
    IN  createFramedImageGroup(img, frameRadius, frameCenterX, frameCenterY)

\* data.frameRadius || 100
RadiusOf(f) == OrElse(f.data.frameRadius, Int2R(DefaultFrameRadius))

\* removeFrameImage and detachImageFromFrame: the empty frame left behind
removeFrameImage(f) ==
    createCircleFrame(Minus(OrElse(f.left, Zero), RadiusOf(f)),
                      Minus(OrElse(f.top, Zero), RadiusOf(f)),
                      RadiusOf(f))

\* replaceFrameImage
replaceFrameImage(f, img) ==
    createFramedImageGroup(img, RadiusOf(f), OrElse(f.left, Zero), OrElse(f.top, Zero))

\* resizeCircleFrame
resizeCircleFrame(f, newRadius) ==
    IF f.hasImage
    THEN createFramedImageGroup(f.image, newRadius,
                                OrElse(f.left, Zero), OrElse(f.top, Zero))
    ELSE createCircleFrame(Minus(OrElse(f.left, Zero), newRadius),
                           Minus(OrElse(f.top, Zero), newRadius), newRadius)

\* const minScale = Math.max(diameter / imgWidth, diameter / imgHeight)
MinScale(f) == CoverScale(RadiusOf(f), f.data.originalWidth, f.data.originalHeight)

\* const finalScale = Math.max(scale, minScale)
FinalScale_unclamped(scale, minScale) == scale

FinalScale(scale, minScale) == MathMax(scale, minScale)

\* updateFrameImageScale and handleFrameImageScaleChange
updateFrameImageScale(f, scale) ==
    LET finalScale == FinalScale(scale, MinScale(f))
    IN  [f EXCEPT !.scaleX = finalScale, !.scaleY = finalScale,
                  !.data.imageScale = finalScale]

\* updateFrameImageOffset and handleFrameImageOffsetChange
updateFrameImageOffset(f, offsetX, offsetY) ==
    [f EXCEPT !.clipPath = <<RNeg(offsetX), RNeg(offsetY)>>,
              !.data.imageOffsetX = offsetX,
              !.data.imageOffsetY = offsetY]

\* handleResetFrameImagePosition
resetFrameImagePosition(f) ==
    [f EXCEPT !.scaleX = MinScale(f), !.scaleY = MinScale(f),
              !.clipPath = <<Zero, Zero>>,
              !.data.imageScale = MinScale(f),
              !.data.imageOffsetX = Zero,
              !.data.imageOffsetY = Zero]

\* mouse:dblclick: originalFrameCenter = originalState.left - offsetX, ...
FrameCenter(f) ==
    <<Minus(OrElse(f.left, Zero), OrElse(f.data.imageOffsetX, Zero)),
      Minus(OrElse(f.top, Zero), OrElse(f.data.imageOffsetY, Zero))>>

\* exitFrameEditModeVisual
exitFrameEditModeVisual(f, originalFrameCenter) ==
    LET newOffsetX == Minus(OrElse(f.left, Zero), originalFrameCenter[1])
        newOffsetY == Minus(OrElse(f.top, Zero), originalFrameCenter[2])
        finalScale == FinalScale(OrElse(f.scaleX, One), MinScale(f))
    IN  [f EXCEPT !.scaleX = finalScale, !.scaleY = finalScale,
                  !.clipPath = <<Over(RNeg(newOffsetX), finalScale),
                                 Over(RNeg(newOffsetY), finalScale)>>,
                  !.data.imageOffsetX = newOffsetX,
                  !.data.imageOffsetY = newOffsetY,
                  !.data.imageScale = finalScale]

\* the properties panel reads the offsets of the object that was selected
PanelOf(f) == <<OrElse(f.data.imageOffsetX, Zero), OrElse(f.data.imageOffsetY, Zero)>>

\* a new circle frame has been added to an empty canvas and is selected
FrameInit ==
    /\ GenInit
    /\ templatesDb = {}
    /\ tplResponse = 0
    /\ SubIdle
    /\ BrowserInit
    /\ CoverIdle
    /\ NewTextbox
    /\ HistoryIdle
    /\ Clean
    /\ \E at \in Positions, r \in Radii :
        frame = createCircleFrame(at[1], at[2], r)
    /\ frameEdit = NoFrameEdit
    /\ panel = PanelOf(frame)
    /\ frLast = NoOp
    /\ frPlaced = NoFrame
    /\ frBefore = NoFrame
    /\ frOps = 0

notFrVars == <<genVars, tplVars, subVars, brVars, cvVars, bdVars, hsVars, dtVars>>

\* bookkeeping of an operation: what it was, and one more operation done
Operation(op, arg) ==
    /\ frOps < MaxFrameOps
    /\ frLast' = [op |-> op, arg |-> arg]
    /\ frOps' = frOps + 1
    /\ UNCHANGED notFrVars

\* the object replaces the frame on the canvas and becomes the active
\* object: selection:created / selection:updated leave frame edit mode and
\* the panel reads the new object
Replaced(f) ==
    /\ frame' = f
    /\ frameEdit' = NoFrameEdit
    /\ panel' = PanelOf(f)
    /\ frBefore' = NoFrame

\* the user moves the object on the canvas (not in frame edit mode)
MoveObject(x, y) ==
    /\ ~frameEdit.active
    /\ Operation("move", x)
    /\ frame' = [frame EXCEPT !.left = x, !.top = y]
    /\ frPlaced' = NoFrame
    /\ frBefore' = NoFrame
    /\ UNCHANGED <<frameEdit, panel>>

\* the user resizes the object with its handles (not in frame edit mode)
ScaleObject(sx, sy) ==
    /\ ~frameEdit.active
    /\ Operation("scale", sx)
    /\ frame' = [frame EXCEPT !.scaleX = sx, !.scaleY = sy]
    /\ frPlaced' = NoFrame
    /\ frBefore' = NoFrame
    /\ UNCHANGED <<frameEdit, panel>>

\* mouse:up with an image dragged over an empty frame
DropImageOnFrame(img) ==
    /\ ~frame.hasImage
    /\ Operation("drop", img.width)
    /\ Replaced(dropImageOnFrame(frame, img))
    /\ frPlaced' = frame

\* the panel's upload into the selected empty frame
AddImageToFrame(img) ==
    /\ ~frame.hasImage
    /\ Operation("add", img.width)
    /\ Replaced(dropImageOnFrame(frame, img))
    /\ frPlaced' = frame

\* the panel's Zoom slider
SetImageScale(scale) ==
    /\ frame.hasImage
    /\ Operation("setScale", scale)
    /\ frame' = updateFrameImageScale(frame, scale)
    /\ frPlaced' = NoFrame
    /\ frBefore' = NoFrame
    /\ UNCHANGED <<frameEdit, panel>>

\* the panel's offset sliders: the other axis comes from the panel's state
SetImageOffset(axis, value) ==
    /\ frame.hasImage
    /\ Operation("setOffset", value)
    /\ LET offsetX == IF axis = "x" THEN value ELSE panel[1]
           offsetY == IF axis = "y" THEN value ELSE panel[2]
       IN  /\ frame' = updateFrameImageOffset(frame, offsetX, offsetY)
           /\ panel' = <<offsetX, offsetY>>
    /\ frPlaced' = NoFrame
    /\ frBefore' = NoFrame
    /\ UNCHANGED frameEdit

\* the panel's Reset Position button
ResetImagePosition ==
    /\ frame.hasImage
    /\ Operation("reset", Zero)
    /\ frame' = resetFrameImagePosition(frame)
    /\ panel' = <<Zero, Zero>>
    /\ frPlaced' = NoFrame
    /\ frBefore' = NoFrame
    /\ UNCHANGED frameEdit

\* the panel's Replace Image
ReplaceImage(img) ==
    /\ frame.hasImage
    /\ Operation("replace", img.width)
    /\ Replaced(replaceFrameImage(frame, img))
    /\ frPlaced' = NoFrame

\* the panel's Remove Image
RemoveImage ==
    /\ frame.hasImage
    /\ Operation("remove", Zero)
    /\ Replaced(removeFrameImage(frame))
    /\ UNCHANGED frPlaced

\* the panel's Detach Image: the empty frame it leaves behind
DetachImage ==
    /\ frame.hasImage
    /\ Operation("detach", Zero)
    /\ Replaced(removeFrameImage(frame))
    /\ UNCHANGED frPlaced

\* the panel's frame size control
ResizeFrame(newRadius) ==
    /\ Operation("resize", newRadius)
    /\ Replaced(resizeCircleFrame(frame, newRadius))
    /\ frPlaced' = NoFrame

\* mouse:dblclick on an occupied frame
EnterFrameEditMode ==
    /\ frame.hasImage
    /\ Operation("enter", Zero)
    /\ frame' = [frame EXCEPT !.clipPath = NoClip]
    /\ frameEdit' = [active |-> TRUE,
                     originalFrameCenter |-> FrameCenter(frame),
                     savedClipPath |-> frame.clipPath]
    /\ frBefore' = IF frameEdit.active THEN NoFrame ELSE frame
    /\ frPlaced' = NoFrame
    /\ UNCHANGED panel

\* the user drags the image in frame edit mode
DragImage(x, y) ==
    /\ frameEdit.active
    /\ Operation("drag", x)
    /\ frame' = [frame EXCEPT !.left = x, !.top = y]
    /\ frBefore' = NoFrame
    /\ UNCHANGED <<frameEdit, panel, frPlaced>>

\* the user scales the image in frame edit mode
ScaleImage(sx, sy) ==
    /\ frameEdit.active
    /\ Operation("scaleImage", sx)
    /\ frame' = [frame EXCEPT !.scaleX = sx, !.scaleY = sy]
    /\ frBefore' = NoFrame
    /\ UNCHANGED <<frameEdit, panel, frPlaced>>

\* doExitFrameEditMode (Escape, click on the background)
ExitFrameEditMode ==
    /\ frameEdit.active
    /\ Operation("exit", Zero)
    /\ frame' = exitFrameEditModeVisual(frame, frameEdit.originalFrameCenter)
    /\ frameEdit' = NoFrameEdit
    /\ UNCHANGED <<panel, frPlaced, frBefore>>

\* the frame is selected again: the panel reads its data
SelectFrame ==
    /\ ~frameEdit.active
    /\ panel' = PanelOf(frame)
    /\ UNCHANGED <<frame, frameEdit, frLast, frPlaced, frBefore, frOps>>
    /\ UNCHANGED notFrVars

FrameNext ==
    \/ \E at \in Positions : MoveObject(at[1], at[2])
    \/ \E sc \in ObjScales : ScaleObject(sc[1], sc[2])
    \/ \E img \in Images : DropImageOnFrame(img)
    \/ \E img \in Images : AddImageToFrame(img)
    \/ \E s \in SliderScales : SetImageScale(s)
    \/ \E axis \in {"x", "y"}, v \in SliderOffsets : SetImageOffset(axis, v)
    \/ ResetImagePosition
    \/ \E img \in Images : ReplaceImage(img)
    \/ RemoveImage
    \/ DetachImage
    \/ \E r \in Radii : ResizeFrame(r)
    \/ EnterFrameEditMode
    \/ \E at \in Positions : DragImage(at[1], at[2])
    \/ \E sc \in ObjScales : ScaleImage(sc[1], sc[2])
    \/ ExitFrameEditMode
    \/ SelectFrame

FrameSpec == FrameInit /\ [][FrameNext]_vars

\* C21: the stored imageScale of an occupied frame is never below the cover
\* scale of its stored radius and natural image size, and a scale requested
\* below the cover scale is stored as exactly the cover scale.
C21_ScaleFloor ==
    frame.hasImage =>
        /\ RLe(MinScale(frame), frame.data.imageScale)
        /\ (frLast.op = "setScale" /\ RLt(frLast.arg, MinScale(frame)))
              => frame.data.imageScale = MinScale(frame)

\* a scale below the cover scale was requested from the panel
C21_Witness ==
    /\ frame.hasImage
    /\ frLast.op = "setScale"
    /\ RLt(frLast.arg, MinScale(frame))

\* the image was scaled down below the cover scale in frame edit mode and
\* the mode was left
C21_WitnessExit ==
    /\ frame.hasImage
    /\ frLast.op = "exit"
    /\ frame.data.imageScale = MinScale(frame)
    /\ RLt(One, MinScale(frame))

\* C22: after every operation that pans a framed image or rebuilds its clip
\* region the clip circle sits at (-imageOffsetX, -imageOffsetY) relative to
\* the host centre.
C22_ClipSignConvention ==
    (frame.hasImage /\ frLast.op \in {"setOffset", "reset", "exit"}) =>
        frame.clipPath = <<RNeg(frame.data.imageOffsetX),
                           RNeg(frame.data.imageOffsetY)>>

\* the rendered size of an object, as real numbers
RenderedWidth(f) == RMul(f.width, f.scaleX)
RenderedHeight(f) == RMul(f.height, f.scaleY)

\* C24: placing an image in an empty frame puts the group's centre at
\* (left + renderedWidth/2, top + renderedHeight/2) of the frame, and
\* removing or detaching the image afterwards recreates an empty frame with
\* the same top-left corner and the same rendered size.
C24_FrameRoundTrip ==
    /\ frLast.op \in {"drop", "add"} =>
        /\ frame.left = RAdd(frPlaced.left, RDiv(RenderedWidth(frPlaced), Two))
        /\ frame.top = RAdd(frPlaced.top, RDiv(RenderedHeight(frPlaced), Two))
    /\ (frLast.op \in {"remove", "detach"} /\ frPlaced # NoFrame) =>
        /\ ~frame.hasImage
        /\ frame.left = frPlaced.left
        /\ frame.top = frPlaced.top
        /\ RenderedWidth(frame) = RenderedWidth(frPlaced)
        /\ RenderedHeight(frame) = RenderedHeight(frPlaced)

\* C29: entering frame edit mode on an occupied frame and leaving it without
\* moving or scaling the image leaves the stored offsets, imageScale, object
\* scale and clip position as they were, and re-entering computes the same
\* frame centre.
C29_EditModeRoundTrip ==
    (frLast.op = "exit" /\ frBefore # NoFrame) =>
        /\ frame.data.imageOffsetX = frBefore.data.imageOffsetX
        /\ frame.data.imageOffsetY = frBefore.data.imageOffsetY
        /\ frame.data.imageScale = frBefore.data.imageScale
        /\ frame.scaleX = frBefore.scaleX
        /\ frame.scaleY = frBefore.scaleY
        /\ frame.clipPath = frBefore.clipPath
        /\ FrameCenter(frame) = FrameCenter(frBefore)

\* --------------------------------------------- variable binding of a text
\* the text of the textbox is followed up to MaxTextLen characters
MaxTextLen == 5
Alphabet == {"{", "}", "a"}
\* what the user can type into the panel's variable name field
PanelNames == {<<>>, <<"a">>, <<"b">>}

NoMatch == <<"null">>

\* target.text.match(/{{(.*?)}}/): the leftmost "{{" that is followed by a
\* "}}", and the shortest text between them; NoMatch without one
Closers(text, k) ==
    {j \in (k + 2)..(Len(text) - 1) : text[j] = "}" /\ text[j + 1] = "}"}

Openers(text) ==
    {k \in 1..(Len(text) - 3) :
        text[k] = "{" /\ text[k + 1] = "{" /\ Closers(text, k) # {}}

Least(S) == CHOOSE n \in S : \A m \in S : n <= m

MatchVariable(text) ==
    IF Openers(text) = {} THEN NoMatch
    ELSE LET k == Least(Openers(text))
             j == Least(Closers(text, k))
         IN  SubSeq(text, k + 2, j - 1)

\* the text:changed handler
textChanged(text, data) ==
    IF text # <<>> /\ MatchVariable(text) # NoMatch
    THEN [data EXCEPT !.variableName = MatchVariable(text), !.isDynamic = TRUE]
    ELSE data

\* handleVariableChange: variableName: name, isDynamic: !!name
handleVariableChange(data, name) ==
    [data EXCEPT !.variableName = name, !.isDynamic = (name # <<>>)]

\* a new textbox on the canvas
BindInit ==
    /\ GenInit
    /\ templatesDb = {}
    /\ tplResponse = 0
    /\ SubIdle
    /\ BrowserInit
    /\ CoverIdle
    /\ FrameIdle
    /\ NewTextbox
    /\ HistoryIdle
    /\ Clean

notBdVars == <<genVars, tplVars, subVars, brVars, cvVars, frVars, hsVars, dtVars>>

\* the user types a character into the textbox: text:changed
InsertCharacter(at, ch) ==
    /\ Len(tbText) < MaxTextLen
    /\ at <= Len(tbText)
    /\ tbText' = SubSeq(tbText, 1, at) \o <<ch>> \o SubSeq(tbText, at + 1, Len(tbText))
    /\ tbData' = textChanged(tbText', tbData)
    /\ UNCHANGED notBdVars

\* the user deletes a character of the textbox: text:changed
DeleteCharacter(at) ==
    /\ at <= Len(tbText)
    /\ tbText' = SubSeq(tbText, 1, at - 1) \o SubSeq(tbText, at + 1, Len(tbText))
    /\ tbData' = textChanged(tbText', tbData)
    /\ UNCHANGED notBdVars

\* the user edits the variable name in the properties panel
EditVariableName(name) ==
    /\ tbData' = handleVariableChange(tbData, name)
    /\ UNCHANGED tbText
    /\ UNCHANGED notBdVars

BindNext ==
    \/ \E at \in 0..MaxTextLen, ch \in Alphabet : InsertCharacter(at, ch)
    \/ \E at \in 1..MaxTextLen : DeleteCharacter(at)
    \/ \E name \in PanelNames : EditVariableName(name)

BindSpec == BindInit /\ [][BindNext]_vars

\* C25: a text whose content contains a {{name}} placeholder is bound to that
\* name with isDynamic true, and a binding with isDynamic true has a
\* non-empty variableName.  A save stores the canvas as it is, so this is
\* asked of every state.
C25_DetectionAgreesWithAnnotation ==
    /\ MatchVariable(tbText) # NoMatch =>
        /\ tbData.variableName = MatchVariable(tbText)
        /\ tbData.isDynamic
    /\ tbData.isDynamic => tbData.variableName \notin {<<>>, Unset}

\* ------------------------------------------------------------ copy-fitting
\* the width the content of a text element needs on one line at scale 1: the
\* placeholders and the value "x" fit the authored box, the value "y" is a
\* word wider than the box
TextWidth(text) == IF text = "y" THEN Int2R(BoxWidth + 1) ELSE One

\* the width a text element is rendered with
RenderedTextWidth(obj) == RMul(TextWidth(obj.text), obj.scaleX)

\* C26: in the canvas of a render no text element is rendered wider than the
\* width it was authored with; an element whose content is wider was scaled
\* down uniformly.
C26_CopyFitting ==
    \A r \in Renders :
        rPc[r] = "rendered" =>
            \A k \in 1..Len(canvas[r]) :
                canvas[r][k].type = "textbox" =>
                    /\ RLe(RenderedTextWidth(canvas[r][k]), canvas[r][k].width)
                    /\ canvas[r][k].scaleX = canvas[r][k].scaleY

\* ---------------------------------------------------------- undo history
\* const MAX_HISTORY_SIZE = 50
MAX_HISTORY_SIZE == 50

\* JSON.stringify(canvas.toJSON()): the content of the canvas plays no part
\* in the bookkeeping of the history
CanvasJson == "json"

\* the events of the canvas the editor saves history on
HistoryEvents == {"object:modified", "object:added", "object:removed"}
\* how a loadFromJSON promise settles
Settlements == {"resolve", "reject"}

\* stack.slice(0, end) for end >= 0
Slice(stack, end) ==
    SubSeq(stack, 1, IF end < Len(stack) THEN end ELSE Len(stack))

\* saveState: drop the states after historyIndex, push, drop the oldest
\* beyond MAX_HISTORY_SIZE
PushedStack(stack, index) ==
    LET newStack == Slice(stack, index + 1) \o <<CanvasJson>>
    IN  IF Len(newStack) > MAX_HISTORY_SIZE THEN Tail(newStack) ELSE newStack

\* saveState()
saveState ==
    IF isRestoring
    THEN UNCHANGED <<historyStack, historyIndex>>
    ELSE /\ historyStack' = PushedStack(historyStack, historyIndex)
         /\ historyIndex' = Len(historyStack') - 1

FreeSlots == {k \in Slots : restores[k] = NoRestore}
PendingRestore == \E k \in Slots : restores[k] # NoRestore

\* the editor is mounted: setTimeout(() => saveState(), 50) is pending
HistoryInit ==
    /\ GenInit
    /\ templatesDb = {}
    /\ tplResponse = 0
    /\ SubIdle
    /\ BrowserInit
    /\ CoverIdle
    /\ FrameIdle
    /\ NewTextbox
    /\ EmptyHistory
    /\ timers = 1
    /\ Clean

notHsVars == <<genVars, tplVars, subVars, brVars, cvVars, frVars, bdVars, dtVars>>

\* an event of the canvas, fired by an edit of the user or by the objects a
\* loadFromJSON in flight removes and adds
CanvasEvent(ev) ==
    /\ \/ /\ ev = "object:modified"
          /\ saveState
          /\ UNCHANGED timers
       \/ /\ ev = "object:added"
          /\ IF isRestoring
             THEN UNCHANGED timers
             ELSE /\ timers < MaxTimers
                  /\ timers' = timers + 1
          /\ UNCHANGED <<historyStack, historyIndex>>
       \/ /\ ev = "object:removed"
          /\ IF isRestoring
             THEN UNCHANGED <<historyStack, historyIndex>>
             ELSE saveState
          /\ UNCHANGED timers
    /\ UNCHANGED <<isRestoring, restores>>
    /\ UNCHANGED notHsVars

\* a setTimeout callback runs: if (!isRestoring) saveState()
TimerFires ==
    /\ timers > 0
    /\ timers' = timers - 1
    /\ saveState
    /\ UNCHANGED <<isRestoring, restores>>
    /\ UNCHANGED notHsVars

\* Ctrl+Z: if (canUndo()) undo(), up to the call of loadFromJSON
Undo ==
    /\ ~isRestoring /\ historyIndex > 0
    /\ \E k \in FreeSlots :
        restores' = [restores EXCEPT ![k] = historyIndex - 1]
    /\ isRestoring' = TRUE
    /\ UNCHANGED <<historyStack, historyIndex, timers>>
    /\ UNCHANGED notHsVars

\* Ctrl+Y: if (canRedo()) redo(), up to the call of loadFromJSON
Redo ==
    /\ ~isRestoring /\ historyIndex < Len(historyStack) - 1
    /\ \E k \in FreeSlots :
        restores' = [restores EXCEPT ![k] = historyIndex + 1]
    /\ isRestoring' = TRUE
    /\ UNCHANGED <<historyStack, historyIndex, timers>>
    /\ UNCHANGED notHsVars

\* the promise of a loadFromJSON settles: then(...) or catch(...)
RestoreSettles(k, how) ==
    /\ restores[k] # NoRestore
    /\ restores' = [restores EXCEPT ![k] = NoRestore]
    /\ historyIndex' = IF how = "resolve" THEN restores[k] ELSE historyIndex
    /\ isRestoring' = FALSE
    /\ UNCHANGED <<historyStack, timers>>
    /\ UNCHANGED notHsVars

\* clearHistory()
ClearHistory ==
    /\ historyStack' = <<>>
    /\ historyIndex' = -1
    /\ isRestoring' = FALSE
    /\ UNCHANGED <<restores, timers>>
    /\ UNCHANGED notHsVars

SomeRestoreSettles == \E k \in Slots, how \in Settlements : RestoreSettles(k, how)

HistoryNext ==
    \/ \E ev \in HistoryEvents : CanvasEvent(ev)
    \/ TimerFires
    \/ Undo
    \/ Redo
    \/ SomeRestoreSettles
    \/ ClearHistory

\* a loadFromJSON in flight settles, a pending timer runs
HistorySpec ==
    HistoryInit /\ [][HistoryNext]_vars
    /\ WF_vars(SomeRestoreSettles) /\ WF_vars(TimerFires)

\* C27: the history holds at most 50 entries, historyIndex is -1 when the
\* stack is empty and otherwise a valid index into historyStack.
C27_HistoryIndexValid ==
    /\ Len(historyStack) <= MAX_HISTORY_SIZE
    /\ historyStack = <<>> => historyIndex = -1
    /\ historyStack # <<>> => historyIndex \in 0..(Len(historyStack) - 1)

\* C28: while a loadFromJSON of an undo or redo is in flight no state is
\* pushed to historyStack (it changes at most by being cleared), and
\* isRestoring always returns to false.
C28_NoSaveWhileRestoring ==
    /\ [][PendingRestore =>
            (historyStack' = historyStack \/ historyStack' = <<>>)]_vars
    /\ (isRestoring ~> ~isRestoring)

\* -------------------------------------------------------- the dirty flag
\* the canvas is followed through MaxEdits edits
MaxEdits == 3
\* how a request to the template API ends
SaveResults == {"ok", "error"}

DirtyInit ==
    /\ GenInit
    /\ templatesDb = {}
    /\ tplResponse = 0
    /\ SubIdle
    /\ BrowserInit
    /\ CoverIdle
    /\ FrameIdle
    /\ NewTextbox
    /\ HistoryIdle
    /\ Clean

notDtVars == <<genVars, tplVars, subVars, brVars, cvVars, frVars, bdVars, hsVars>>

\* the user changes the canvas: the handler ends with setDirty(true)
EditCanvas ==
    /\ content < MaxEdits
    /\ content' = content + 1
    /\ isDirty' = TRUE
    /\ UNCHANGED <<saved, inFlight>>
    /\ UNCHANGED notDtVars

\* undo: loadFromJSON puts an earlier content on the canvas; object:added
\* returns before setDirty while isRestoring
UndoCanvas ==
    /\ content > 0
    /\ content' = content - 1
    /\ UNCHANGED <<saved, isDirty, inFlight>>
    /\ UNCHANGED notDtVars

\* Toolbar.handleSave up to the await: fabricJson = canvas.toObject(['data'])
ToolbarSave ==
    /\ inFlight["toolbar"] = NoSave
    /\ inFlight' = [inFlight EXCEPT !["toolbar"] = content]
    /\ UNCHANGED <<content, saved, isDirty>>
    /\ UNCHANGED notDtVars

\* Ctrl+S: triggerSave calls the save callback only if isDirty, and
\* handleSaveRequest returns if isSaving
TriggerSave ==
    /\ isDirty
    /\ inFlight["shortcut"] = NoSave
    /\ inFlight' = [inFlight EXCEPT !["shortcut"] = content]
    /\ UNCHANGED <<content, saved, isDirty>>
    /\ UNCHANGED notDtVars

\* after the await of either save: setDirty(false) on success, the catch
\* block on failure
SaveDone(p, result) ==
    /\ inFlight[p] # NoSave
    /\ inFlight' = [inFlight EXCEPT ![p] = NoSave]
    /\ saved' = IF result = "ok" THEN inFlight[p] ELSE saved
    /\ isDirty' = IF result = "ok" THEN FALSE ELSE isDirty
    /\ UNCHANGED content
    /\ UNCHANGED notDtVars

DirtyNext ==
    \/ EditCanvas
    \/ UndoCanvas
    \/ ToolbarSave
    \/ TriggerSave
    \/ \E p \in Savers, result \in SaveResults : SaveDone(p, result)

DirtySpec == DirtyInit /\ [][DirtyNext]_vars

====
